---- MODULE Spec2Model ----
(***************************************************************************)
(* A model of option.ts (src/option.ts): the Option constructor, the       *)
(* shared None, Some instances and their combinators, and Option.all /     *)
(* Option.isOption.  The library itself is stateless; the state machine is *)
(* a client that holds the Option it obtained last (cur), applies one      *)
(* public operation per step, and observes what the call did (last).       *)
(***************************************************************************)
EXTENDS Integers, Sequences, FiniteSets

VARIABLES cur, created, last

vars == <<cur, created, last>>

-----------------------------------------------------------------------------
(* Bounds of the model *)

\* Some instances a run may create (each Some(value) call makes a new object).
MaxSome == 3

\* Longest argument list handed to Option.all.
MaxArgs == 2

-----------------------------------------------------------------------------
(* JavaScript values.  Every value is a record of the same shape:          *)
(*   k       kind: null, undefined, number, string, boolean, object,       *)
(*           function (a foreign function), array, option (a function      *)
(*           object built by Some() or makeNone())                         *)
(*   n       number value / string length / boolean 0-1 / Some identity    *)
(*   has     the data properties for which `name in value` is true (the    *)
(*           methods of an Option are listed by Methods below)             *)
(*   truthy  the data properties whose value is truthy                     *)
(*   e       array elements; for a function or an Option what invoking it  *)
(*           returns; for an object with a value() method what it returns  *)

V(k, n, has, truthy, e) == [k |-> k, n |-> n, has |-> has, truthy |-> truthy, e |-> e]

Null == V("null", 0, {}, {}, <<>>)

Undefined == V("undefined", 0, {}, {}, <<>>)

Num(n) == V("number", n, {}, {}, <<>>)

Str(len) == V("string", len, {}, {}, <<>>)

Bool(b) == V("boolean", IF b THEN 1 ELSE 0, {}, {}, <<>>)

Arr(elems) == V("array", Len(elems), {}, {}, elems)

\* a plain object with a value() method returning ret and the given marker fields
Obj(has, truthy, ret) == V("object", 0, has, truthy, <<ret>>)

\* a function that is not an Option of this library, returning ret when called
Fn(has, truthy, ret) == V("function", 0, has, truthy, <<ret>>)

\* JavaScript truthiness
Truthy(v) ==
  CASE v.k = "null" -> FALSE
    [] v.k = "undefined" -> FALSE
    [] v.k = "number" -> v.n # 0
    [] v.k = "string" -> v.n # 0
    [] v.k = "boolean" -> v.n = 1
    [] OTHER -> TRUE

\* typeof value
TypeOf(v) ==
  CASE v.k = "option" -> "function"
    [] v.k = "array" -> "object"
    [] v.k = "null" -> "object"
    [] OTHER -> v.k

\* value.name is truthy (a property read on null/undefined is never reached:
\* every such read in the source is guarded by `value &&`)
PropTruthy(v, name) == name \in v.truthy

\* `name in value`
PropIn(v, name) == name \in v.has

-----------------------------------------------------------------------------
(* isDef, None, Some *)

isDefTruthy(value) == Truthy(value)

isDef(value) == value.k # "null" /\ value.k # "undefined"

SomeProtoKeys ==
  {"isDefined", "map", "flatMap", "filter", "orElse", "getOrElse", "match",
   "toString", "toJSON"}

NoneMethods ==
  {"isDefined", "map", "flatMap", "filter", "orElse", "getOrElse", "match",
   "toString", "toJSON"}

\* the one object makeNone() builds; invoking it returns undefined
None == V("option", 0, {"_isNone"}, {"_isNone"}, <<Undefined>>)

\* Some(value): a new function object (identity id) returning value
Some(value, id) ==
  V("option", id, {"value", "_isSome"},
    {"_isSome"} \cup (IF Truthy(value) THEN {"value"} ELSE {}), <<value>>)

IsOptionObject(v) == v.k = "option"

IsSome(v) == v.k = "option" /\ PropIn(v, "_isSome")

\* self(): reading the Option
Read(self) == self.e[1]

\* self.isDefined()
isDefined(self) == IF PropIn(self, "_isSome") THEN TRUE ELSE FALSE

\* the method names an Option object carries
Methods(self) == IF PropIn(self, "_isSome") THEN SomeProtoKeys ELSE NoneMethods

-----------------------------------------------------------------------------
(* What a call did: the value returned (or that it threw), how often and   *)
(* with what the callback was invoked, how many Some objects were created, *)
(* and for Option.all which argument positions were visited and invoked.   *)

Outcome(res, threw, calls, callArgs, allocs, seen, unwraps) ==
  [res |-> res, threw |-> threw, calls |-> calls, callArgs |-> callArgs,
   allocs |-> allocs, seen |-> seen, unwraps |-> unwraps]

Returned(res, calls, callArgs, allocs) ==
  Outcome(res, "", calls, callArgs, allocs, 0, <<>>)

Thrown(what, calls, callArgs, allocs) ==
  Outcome(Undefined, what, calls, callArgs, allocs, 0, <<>>)

\* A callback is given by what one invocation of it does: it throws, or it
\* returns ret after creating allocs Some objects of its own.
Callback(throws, ret, allocs) == [throws |-> throws, ret |-> ret, allocs |-> allocs]

\* The Option constructor (OptionObject)
OptionObjectTruthy(value, id) == IF isDefTruthy(value) THEN Some(value, id) ELSE None

OptionObject(value, id) == IF isDef(value) THEN Some(value, id) ELSE None

-----------------------------------------------------------------------------
(* someProto: the methods copied onto every Some.  `next` is the number of  *)
(* Some objects that exist when the method is entered.                      *)

\* this.value
ValueOf(self) == self.e[1]

\* result.value() of a space-lift wrapper
CallValue(result) == result.e[1]

\* mutant: the result is wrapped without the isDef test
SomeMapNoCheck(self, fn, next) ==
  LET result == fn.ret
      unwrapped == IF Truthy(result) /\ PropTruthy(result, "_isLiftWrapper")
                   THEN CallValue(result) ELSE result
  IN  IF fn.throws
      THEN Thrown("callback", 1, <<ValueOf(self)>>, 0)
      ELSE Returned(Some(unwrapped, next + fn.allocs + 1), 1, <<ValueOf(self)>>,
                    fn.allocs + 1)

\* mutant: the result is tested for truthiness instead of isDef
SomeMapTruthy(self, fn, next) ==
  LET result == fn.ret
      unwrapped == IF Truthy(result) /\ PropTruthy(result, "_isLiftWrapper")
                   THEN CallValue(result) ELSE result
  IN  IF fn.throws
      THEN Thrown("callback", 1, <<ValueOf(self)>>, 0)
      ELSE IF Truthy(unwrapped)
           THEN Returned(Some(unwrapped, next + fn.allocs + 1), 1, <<ValueOf(self)>>,
                         fn.allocs + 1)
           ELSE Returned(None, 1, <<ValueOf(self)>>, fn.allocs)

SomeMap(self, fn, next) ==
  LET result == fn.ret
      unwrapped == IF Truthy(result) /\ PropTruthy(result, "_isLiftWrapper")
                   THEN CallValue(result) ELSE result
  IN  IF fn.throws
      THEN Thrown("callback", 1, <<ValueOf(self)>>, 0)
      ELSE IF isDef(unwrapped)
           THEN Returned(Some(unwrapped, next + fn.allocs + 1), 1, <<ValueOf(self)>>,
                         fn.allocs + 1)
           ELSE Returned(None, 1, <<ValueOf(self)>>, fn.allocs)

\* mutant: a None coming back from fn is replaced by this
SomeFlatMapKeep(self, fn) ==
  IF fn.throws
  THEN Thrown("callback", 1, <<ValueOf(self)>>, 0)
  ELSE Returned(IF fn.ret = None THEN self ELSE fn.ret, 1, <<ValueOf(self)>>, fn.allocs)

SomeFlatMap(self, fn) ==
  IF fn.throws
  THEN Thrown("callback", 1, <<ValueOf(self)>>, 0)
  ELSE Returned(fn.ret, 1, <<ValueOf(self)>>, fn.allocs)

SomeFilter(self, fn) ==
  IF fn.throws
  THEN Thrown("callback", 1, <<ValueOf(self)>>, 0)
  ELSE Returned(IF Truthy(fn.ret) THEN self ELSE None, 1, <<ValueOf(self)>>, fn.allocs)

\* mutant: the alternative is evaluated although it is not needed
SomeOrElseEager(self, alt) ==
  IF alt.throws
  THEN Thrown("callback", 1, <<>>, 0)
  ELSE Returned(self, 1, <<>>, alt.allocs)

SomeOrElse(self, alt) == Returned(self, 0, <<>>, 0)

-----------------------------------------------------------------------------
(* makeNone: the methods of the shared None *)

\* mutant: the callback is invoked with undefined before None is returned
returnNoneCalling(fn) ==
  IF fn.throws
  THEN Thrown("callback", 1, <<Undefined>>, 0)
  ELSE Returned(None, 1, <<Undefined>>, fn.allocs)

\* map, flatMap and filter of None are all this one function
returnNone(fn) == Returned(None, 0, <<>>, 0)

NoneOrElse(alt) ==
  IF alt.throws
  THEN Thrown("callback", 1, <<>>, 0)
  ELSE Returned(alt.ret, 1, <<>>, alt.allocs)

-----------------------------------------------------------------------------
(* Method calls on an Option: the function attached at construction runs.  *)

map(self, fn, next) ==
  IF PropIn(self, "_isSome") THEN SomeMap(self, fn, next) ELSE returnNone(fn)

flatMap(self, fn) ==
  IF PropIn(self, "_isSome") THEN SomeFlatMap(self, fn) ELSE returnNone(fn)

filter(self, fn) ==
  IF PropIn(self, "_isSome") THEN SomeFilter(self, fn) ELSE returnNone(fn)

orElse(self, alt) ==
  IF PropIn(self, "_isSome") THEN SomeOrElse(self, alt) ELSE NoneOrElse(alt)

\* self.forEach(procedure): the property read self.forEach gives undefined on a
\* Some (someProto has no such key) and on None (makeNone sets no such field),
\* and calling undefined throws a TypeError before procedure is touched
forEach(self, procedure) ==
  IF "forEach" \notin Methods(self) \cup self.has
  THEN Thrown("TypeError", 0, <<>>, 0)
  ELSE Returned(Undefined, 0, <<>>, 0)

-----------------------------------------------------------------------------
(* Option.all and Option.isOption *)

\* value(): calling a function value
Invoke(value) == value.e[1]

\* value && (value._isSome || value._isNone)
AllTakesForOption(value) ==
  Truthy(value) /\ (PropTruthy(value, "_isSome") \/ PropTruthy(value, "_isNone"))

AllState(values, invoked, seen, threw) ==
  [values |-> values, invoked |-> invoked, seen |-> seen, threw |-> threw]

\* mutant: an absent argument is skipped and the loop goes on
RECURSIVE AllLoopNoBreak(_, _, _, _)
AllLoopNoBreak(args, i, values, invoked) ==
  IF i > Len(args)
  THEN AllState(values, invoked, Len(args), "")
  ELSE LET arg == args[i]
           call == AllTakesForOption(arg)
       IN  IF call /\ TypeOf(arg) # "function"
           THEN AllState(values, Append(invoked, i), i, "TypeError")
           ELSE LET value == IF call THEN Invoke(arg) ELSE arg
                    inv == IF call THEN Append(invoked, i) ELSE invoked
                IN  IF ~isDef(value)
                    THEN AllLoopNoBreak(args, i + 1, values, inv)
                    ELSE AllLoopNoBreak(args, i + 1, Append(values, value), inv)

\* the for loop of Option.all from index i on (1-based here)
RECURSIVE AllLoop(_, _, _, _)
AllLoop(args, i, values, invoked) ==
  IF i > Len(args)
  THEN AllState(values, invoked, Len(args), "")
  ELSE LET arg == args[i]
           call == AllTakesForOption(arg)
       IN  IF call /\ TypeOf(arg) # "function"
           THEN AllState(values, Append(invoked, i), i, "TypeError")
           ELSE LET value == IF call THEN Invoke(arg) ELSE arg
                    inv == IF call THEN Append(invoked, i) ELSE invoked
                IN  IF ~isDef(value)
                    THEN AllState(values, inv, i, "")
                    ELSE AllLoop(args, i + 1, Append(values, value), inv)

AllResult(st, nargs, next) ==
  IF st.threw # ""
  THEN Outcome(Undefined, st.threw, 0, <<>>, 0, st.seen, st.invoked)
  ELSE IF Len(st.values) # nargs
       THEN Outcome(None, "", 0, <<>>, 0, st.seen, st.invoked)
       ELSE Outcome(OptionObject(Arr(st.values), next + 1), "", 0, <<>>, 1,
                    st.seen, st.invoked)

OptionAllNoBreak(args, next) ==
  AllResult(AllLoopNoBreak(args, 1, <<>>, <<>>), Len(args), next)

\* mutant: the values are handed back in reverse order
OptionAllReversed(args, next) ==
  LET st == AllLoop(args, 1, <<>>, <<>>)
      rev == [j \in 1..Len(st.values) |-> st.values[Len(st.values) + 1 - j]]
  IN  AllResult([st EXCEPT !.values = rev], Len(args), next)

OptionAll(args, next) ==
  AllResult(AllLoop(args, 1, <<>>, <<>>), Len(args), next)

isOption(value) ==
  TypeOf(value) = "function" /\ (PropIn(value, "_isSome") \/ PropIn(value, "_isNone"))

-----------------------------------------------------------------------------
(* The values a client passes in or lets its callbacks return *)

Primitives == {Null, Undefined, Num(0), Num(5), Str(0), Bool(FALSE)}

\* space-lift wrappers (marker _isLiftWrapper and a value() method), and an
\* object that has value() but not the marker
LiftWrapper(inner) == Obj({"_isLiftWrapper", "value"}, {"_isLiftWrapper", "value"}, inner)

Wrappers == {LiftWrapper(Num(5)), LiftWrapper(Num(0)), LiftWrapper(Null),
             Obj({"value"}, {"value"}, Num(5))}

\* a plain object { _isSome: true }, which is no function
TaggedObject == V("object", 0, {"_isSome"}, {"_isSome"}, <<>>)

\* a function f with f._isSome = 0, returning 5 when called
FalsyTagFunction == Fn({"_isSome"}, {}, Num(5))

\* a function without any marker
PlainFunction == Fn({}, {}, Num(5))

Foreign == {TaggedObject, FalsyTagFunction, PlainFunction}

RawValues == Primitives \cup Wrappers \cup Foreign

\* arguments of Option.all: raw values, None, and an Option the client built
\* for the call
AllArgValues(built) ==
  {Null, Undefined, Num(0), TaggedObject, FalsyTagFunction, None, built}

ArgLists(built) == UNION {[1..n -> AllArgValues(built)] : n \in 0..MaxArgs}

\* what a callback of map or filter may do: throw, or return any value
ValueCallbacks(held) ==
  {Callback(TRUE, Undefined, 0)}
    \cup {Callback(FALSE, r, 0) : r \in RawValues \cup {None, held}}

\* a predicate of filter: only the truthiness of what it returns matters
Predicates ==
  {Callback(TRUE, Undefined, 0)}
    \cup {Callback(FALSE, r, 0) : r \in {Bool(FALSE), Bool(TRUE), Num(0), Undefined}}

\* what a callback of flatMap or orElse may do: throw, return an Option the
\* client holds, or build one with Option(w); next Some objects exist so far
OptionCallbacks(held, next) ==
  {Callback(TRUE, Undefined, 0)}
    \cup {Callback(FALSE, o, 0) : o \in {None, held}}
    \cup {Callback(FALSE, OptionObject(w, next + 1), 1) : w \in {Num(0), Num(5)}}

\* functions of the flatMap law: tables from values to Options
LawDomain == {Num(0), Num(5)}

LawOptions(held, next) == {None, held, Some(Num(0), next + 1), Some(Num(5), next + 2)}

\* one invocation of table F on the value read from Option o
CallbackAt(F, o) ==
  IF Read(o) \in DOMAIN F
  THEN Callback(FALSE, F[Read(o)], 0)
  ELSE Callback(TRUE, Undefined, 0)

-----------------------------------------------------------------------------
(* The client *)

NoCallback == Callback(FALSE, Undefined, 0)

Observe(op, recv, args, cb, out, res2) ==
  [op |-> op, recv |-> recv, args |-> args, cb |-> cb, res |-> out.res,
   res2 |-> res2, threw |-> out.threw, calls |-> out.calls,
   callArgs |-> out.callArgs, seen |-> out.seen, unwraps |-> out.unwraps]

\* the client keeps the Option a call returned
Keep(out) == IF out.threw = "" /\ IsOptionObject(out.res) THEN out.res ELSE cur

\* no call is being looked at
Idle == Observe("idle", Undefined, <<>>, NoCallback,
                Returned(Undefined, 0, <<>>, 0), Undefined)

Init ==
  /\ cur = None
  /\ created = 0
  /\ last = Idle

Finish(op, recv, args, cb, out, res2) ==
  /\ last = Idle
  /\ created + out.allocs <= MaxSome
  /\ last' = Observe(op, recv, args, cb, out, res2)
  /\ cur' = Keep(out)
  /\ created' = created + out.allocs

\* Option(value)
CallOption ==
  \E value \in RawValues \cup {cur} :
    LET res == OptionObject(value, created + 1)
        out == Returned(res, 0, <<>>, IF res = None THEN 0 ELSE 1)
    IN  Finish("Option", Undefined, <<value>>, NoCallback, out, Undefined)

\* cur.map(fn)
CallMap ==
  \E fn \in ValueCallbacks(cur) :
    Finish("map", cur, <<>>, fn, map(cur, fn, created), Undefined)

\* cur.flatMap(fn)
CallFlatMap ==
  \E fn \in OptionCallbacks(cur, created) :
    Finish("flatMap", cur, <<>>, fn, flatMap(cur, fn), Undefined)

\* cur.filter(fn)
CallFilter ==
  \E fn \in Predicates :
    Finish("filter", cur, <<>>, fn, filter(cur, fn), Undefined)

\* cur.orElse(alt)
CallOrElse ==
  \E alt \in OptionCallbacks(cur, created) :
    Finish("orElse", cur, <<>>, alt, orElse(cur, alt), Undefined)

\* cur.forEach(procedure)
CallForEach ==
  \E procedure \in {Callback(FALSE, Undefined, 0), Callback(TRUE, Undefined, 0)} :
    Finish("forEach", cur, <<>>, procedure, forEach(cur, procedure), Undefined)

\* const built = Option(5); Option.all(...args), where built is only created
\* when args uses it
CallAll ==
  LET built == OptionObject(Num(5), created + 1)
  IN  \E args \in ArgLists(built) :
        LET used == IF \E i \in 1..Len(args) : args[i] = built THEN 1 ELSE 0
            out == OptionAll(args, created + used)
        IN  Finish("all", Undefined, args, NoCallback,
                   [out EXCEPT !.allocs = @ + used], Undefined)

\* cur.flatMap(f).flatMap(g) and cur.flatMap(v => f(v).flatMap(g)), with f and
\* g closing over Options built beforehand
CallFlatMapBothWays ==
  /\ cur = None \/ Read(cur) \in LawDomain
  /\ \E f \in [LawDomain -> LawOptions(cur, created)] :
     \E g \in [LawDomain -> LawOptions(cur, created)] :
       LET first == flatMap(cur, CallbackAt(f, cur))
           left == flatMap(first.res, CallbackAt(g, first.res))
           inner == IF cur = None
                    THEN Callback(TRUE, Undefined, 0)
                    ELSE LET fv == CallbackAt(f, cur).ret
                             r == flatMap(fv, CallbackAt(g, fv))
                         IN  Callback(r.threw # "", r.res, 0)
           right == flatMap(cur, inner)
           out == Outcome(left.res, left.threw, first.calls + left.calls,
                          first.callArgs \o left.callArgs, 2, 0, <<>>)
       IN  /\ first.threw = ""
           /\ Finish("flatMapLaw", cur, <<>>, NoCallback, out,
                     IF right.threw = "" THEN right.res ELSE Undefined)

\* the client has looked at what the call did and goes on with cur
Continue ==
  /\ last # Idle
  /\ last' = Idle
  /\ UNCHANGED <<cur, created>>

Next ==
  \/ Continue
  \/ CallOption
  \/ CallMap
  \/ CallFlatMap
  \/ CallFilter
  \/ CallOrElse
  \/ CallForEach
  \/ CallAll
  \/ CallFlatMapBothWays

Spec == Init /\ [][Next]_vars

-----------------------------------------------------------------------------
(* Vocabulary of the properties *)

Nullish(v) == v.k = "null" \/ v.k = "undefined"

\* o is a Some object (never the shared None)
IsASome(o) == o.k = "option" /\ o.n > 0 /\ "_isSome" \in o.has

\* an Option is well formed: the shared None, or a Some holding a non-null value
WellFormed(o) == o = None \/ (IsASome(o) /\ ~Nullish(o.e[1]))

Range(seq) == {seq[i] : i \in 1..Len(seq)}

\* an argument of Option.all is absent: None, null or undefined
AbsentArg(a) == a = None \/ Nullish(a)

\* the value an argument of Option.all stands for
UnwrappedArg(a) == IF a.k = "option" THEN a.e[1] ELSE a

\* what map is to wrap: fn's result, or the content of a space-lift wrapper
MapPayload(r) ==
  IF "_isLiftWrapper" \in r.truthy THEN r.e[1] ELSE r

\* two Options are the same variant and hold the same value
SameOption(a, b) ==
  \/ a = None /\ b = None
  \/ IsASome(a) /\ IsASome(b) /\ a.e[1] = b.e[1]

PublicOps == {"Option", "map", "filter", "flatMap", "orElse", "all"}

-----------------------------------------------------------------------------
(* C1: whatever sequence of Option(v), map, filter, flatMap, orElse and    *)
(* Option.all calls the client has made, the Option it holds and the       *)
(* Option the last call returned are the shared None or a Some whose value *)
(* is neither null nor undefined.                                          *)
C1_NonNullInvariant ==
  /\ WellFormed(cur)
  /\ (last.op \in PublicOps /\ last.threw = "" /\ last.res.k = "option")
       => WellFormed(last.res)

\* a map whose callback returns a wrapper of null, on a Some obtained from
\* Option.all, gave None
C1_Witness ==
  /\ last.op = "map"
  /\ IsASome(last.recv)
  /\ last.recv.e[1].k = "array"
  /\ last.cb.ret = LiftWrapper(Null)
  /\ last.res = None

(* C2: Option(v) is a new Some reading v when v is neither null nor        *)
(* undefined (0, '' and false included), and the shared None, reading      *)
(* undefined, when v is null or undefined.                                 *)
C2_SmartConstructor ==
  last.op = "Option" =>
    LET v == last.args[1]
    IN  /\ last.threw = ""
        /\ IF Nullish(v)
           THEN last.res = None /\ ~isDefined(last.res) /\ Read(last.res) = Undefined
           ELSE IsASome(last.res) /\ isDefined(last.res) /\ Read(last.res) = v

C2_Witness ==
  /\ last.op = "Option"
  /\ last.args[1] \in {Num(0), Str(0), Bool(FALSE)}
  /\ IsASome(last.res)

(* C3 as stated: Some(x).map(fn) invokes fn once with x and returns a Some *)
(* holding fn(x) when fn(x) is neither null nor undefined, and None when   *)
(* fn(x) is null or undefined.                                             *)
C3_MapHoldsFnResult ==
  (last.op = "map" /\ IsASome(last.recv) /\ ~last.cb.throws) =>
    /\ last.calls = 1
    /\ last.callArgs = <<last.recv.e[1]>>
    /\ IF Nullish(last.cb.ret)
       THEN last.res = None
       ELSE IsASome(last.res) /\ last.res.e[1] = last.cb.ret

(* C3 amended: Some(x).map(fn) invokes fn once with x; with r the result   *)
(* of fn, or the result of its value() when fn returned a space-lift       *)
(* wrapper (an object with a truthy _isLiftWrapper), it returns a Some     *)
(* holding r when r is neither null nor undefined and None otherwise.      *)
C3_MapHoldsPayload ==
  (last.op = "map" /\ IsASome(last.recv) /\ ~last.cb.throws) =>
    /\ last.calls = 1
    /\ last.callArgs = <<last.recv.e[1]>>
    /\ last.threw = ""
    /\ IF Nullish(MapPayload(last.cb.ret))
       THEN last.res = None
       ELSE IsASome(last.res) /\ last.res.e[1] = MapPayload(last.cb.ret)

\* a wrapper of 0 was unwrapped and its falsy content kept in a Some
C3_Witness ==
  /\ last.op = "map"
  /\ IsASome(last.recv)
  /\ last.cb.ret = LiftWrapper(Num(0))
  /\ IsASome(last.res)
  /\ last.res.e[1] = Num(0)

(* C4: map, flatMap and filter on None return the shared None and do not   *)
(* invoke the function they are given.                                     *)
C4_NoneShortCircuit ==
  (last.op \in {"map", "flatMap", "filter"} /\ last.recv = None) =>
    /\ last.res = None
    /\ last.threw = ""
    /\ last.calls = 0

\* each of the three was called on None with a function that throws if invoked
C4_Witness ==
  /\ last.op \in {"map", "flatMap", "filter"}
  /\ last.recv = None
  /\ last.cb.throws
  /\ last.res = None

(* C5: orElse on a Some returns that very Some and never invokes the       *)
(* alternative; on None it invokes the alternative exactly once and        *)
(* returns exactly what it returned (or lets its failure through).         *)
C5_OrElseLazy ==
  last.op = "orElse" =>
    IF IsASome(last.recv)
    THEN last.res = last.recv /\ last.calls = 0 /\ last.threw = ""
    ELSE /\ last.calls = 1
         /\ IF last.cb.throws
            THEN last.threw = "callback"
            ELSE last.threw = "" /\ last.res = last.cb.ret

\* a Some was given an alternative that throws, and came back itself
C5_Witness ==
  /\ last.op = "orElse"
  /\ IsASome(last.recv)
  /\ last.cb.throws
  /\ last.res = last.recv

(* C6 as stated: Option.all returns a Some exactly when no argument is     *)
(* None, null or undefined, and that Some holds the unwrapped arguments in *)
(* input order; in every other case it returns the shared None.            *)
C6_AllResult ==
  last.op = "all" =>
    /\ last.threw = ""
    /\ IF \A i \in 1..Len(last.args) : ~AbsentArg(last.args[i])
       THEN /\ IsASome(last.res)
            /\ last.res.e[1] = Arr([i \in 1..Len(last.args) |-> UnwrappedArg(last.args[i])])
       ELSE last.res = None

(* C7: Option.all invokes its arguments strictly left to right, invokes    *)
(* argument j only if no argument before j is absent, and once the first   *)
(* absent argument is met at position k invokes nothing after k and        *)
(* returns the shared None.                                                *)
C7_AllShortCircuit ==
  last.op = "all" =>
    /\ \A p, q \in 1..Len(last.unwraps) : p < q => last.unwraps[p] < last.unwraps[q]
    /\ \A j \in Range(last.unwraps) :
         /\ j <= last.seen
         /\ \A i \in 1..(j - 1) : ~AbsentArg(last.args[i])
    /\ \A k \in 1..Len(last.args) :
         (AbsentArg(last.args[k]) /\ last.seen >= k)
           => /\ last.seen = k
              /\ \A j \in Range(last.unwraps) : j <= k
              /\ last.threw = ""
              /\ last.res = None

\* an absent first argument kept the Option behind it from being invoked
C7_Witness ==
  /\ last.op = "all"
  /\ Len(last.args) = 2
  /\ AbsentArg(last.args[1])
  /\ IsASome(last.args[2])
  /\ 2 \notin Range(last.unwraps)
  /\ last.res = None

(* C8 as stated: forEach(procedure) on a Some holding x invokes procedure  *)
(* exactly once with x, on None does not invoke it, and the forEach call   *)
(* itself does not fail.                                                   *)
C8_ForEach ==
  last.op = "forEach" =>
    /\ last.threw # "TypeError"
    /\ IF IsASome(last.recv)
       THEN last.calls = 1 /\ last.callArgs = <<last.recv.e[1]>>
       ELSE last.calls = 0

(* C9: o.flatMap(f).flatMap(g) and o.flatMap(v => f(v).flatMap(g)) are the *)
(* same variant and hold the same value, for a Some and for None, when f   *)
(* and g return well-formed Options.                                       *)
C9_FlatMapAssociative ==
  last.op = "flatMapLaw" => SameOption(last.res, last.res2)

\* the law was exercised on a Some whose chain ended in another Some
C9_Witness ==
  /\ last.op = "flatMapLaw"
  /\ IsASome(last.recv)
  /\ IsASome(last.res)
  /\ last.res # last.recv
  /\ IsASome(last.res2)

(* C10 as stated: Option.all invokes an argument if and only if            *)
(* Option.isOption holds of it, and treats it as a raw value if and only   *)
(* if Option.isOption does not hold of it.                                 *)
C10_AllUsesIsOption ==
  last.op = "all" =>
    \A i \in 1..last.seen : (i \in Range(last.unwraps)) <=> isOption(last.args[i])

====
